---- MODULE Spec2Model ----
(***************************************************************************)
(* The runtime loop of DefaultRuntime (src/src/runtime/mod.rs) against an  *)
(* arbitrary Transport: every transport call answers with a transport      *)
(* error or with a response of any status, the initializer and the handler *)
(* answer Ok or Err.  One action per call the loop makes to the outside.   *)
(***************************************************************************)
EXTENDS Integers, Sequences, FiniteSets, TLC

\* Number of next-invocation polls one explored run may issue.
MaxPolls == 2

\* Largest deadline and clock reading, in ticks since the epoch.
MaxTime == 4

---------------------------------------------------------------------------
\* Option<T> and Result<T, E>

None == <<>>
Some(x) == <<x>>
IsSome(o) == o /= <<>>
Unwrap(o) == o[1]
Opt(S) == {None} \cup {Some(x) : x \in S}

Ok(v) == [ok |-> TRUE, val |-> v]
Err(e) == [ok |-> FALSE, val |-> e]

---------------------------------------------------------------------------
\* Values the outside world can supply

AWS_FUNC_ERR_TYPE == "Lambda-Runtime-Function-Error-Type"

StatusCodes == {200, 302, 404, 500, 503}
RequestIds == {"r1", "r2"}
TraceIds == {"t1", "t2"}
Bodies == {"b1"}

\* A value of a type implementing LambdaAPIResponse, by what its getters return.
Responses ==
    [status : StatusCodes, body : Opt(Bodies),
     request_id : Opt(RequestIds), trace_id : Opt(TraceIds)]

\* Answers to the report POSTs: the loop reads their status (and body) only.
Acks ==
    [status : StatusCodes, body : Opt(Bodies),
     request_id : {None}, trace_id : {None}]

TransportError == [msg |-> "transport"]
GetResults == {Err(TransportError)} \cup {Ok(r) : r \in Responses}
PostResults == {Err(TransportError)} \cup {Ok(r) : r \in Acks}

\* What the user handler may return: Ok(OUT) or Err(ERR).
Outputs == {"o1", "o2", "unserializable"}
Errors == {"e1", "e2"}
LambdaResults == {Ok(o) : o \in Outputs} \cup {Err(e) : e \in Errors}
InitResults == {Ok("event_handler"), Err("e1"), Err("e2")}

\* Version strings handed to DefaultRuntime::new, as sequences of characters.
VersionArgs == {<<"V">>, <<"/", "V">>}

---------------------------------------------------------------------------
\* LambdaAPIResponse status bands

get_status_code(resp) == resp.status
is_success(resp) == get_status_code(resp) \in 200..299

\* Mutant: the client band runs one code too far.
is_client_err_to_500(resp) == get_status_code(resp) \in 400..500

is_client_err(resp) == get_status_code(resp) \in 400..499
is_server_err(resp) == get_status_code(resp) \in 500..599
event_response(resp) == IF is_success(resp) THEN resp.body ELSE None
error_response(resp) == IF is_client_err(resp) THEN resp.body ELSE None

---------------------------------------------------------------------------
\* LambdaContext::get_remaining_time_ms.  Times are counted in ticks since the
\* Unix epoch; a clock reading before the epoch is a negative `now`, for
\* which SystemTime::duration_since returns Err.

\* Mutant: a missing deadline is taken for a deadline of zero.
get_remaining_time_ms_default(deadline, now) ==
    IF now < 0 THEN Err("second time provided was later than self")
    ELSE LET dur == IF deadline = None THEN 0 ELSE Unwrap(deadline)
         IN  IF dur >= now THEN Ok(dur - now) ELSE Err("Duration error")

\* Mutant: the subtraction saturates at zero instead of failing.
get_remaining_time_ms_saturating(deadline, now) ==
    IF now < 0 THEN Err("second time provided was later than self")
    ELSE IF deadline = None THEN Err("Missing deadline info")
    ELSE IF Unwrap(deadline) >= now THEN Ok(Unwrap(deadline) - now)
    ELSE Ok(0)

get_remaining_time_ms(deadline, now) ==
    IF now < 0 THEN Err("second time provided was later than self")
    ELSE IF deadline = None THEN Err("Missing deadline info")
    ELSE IF Unwrap(deadline) >= now THEN Ok(Unwrap(deadline) - now)
    ELSE Err("Duration error")

---------------------------------------------------------------------------
\* Pure parts of the runtime

\* Mutant: every server error is let through.
handle_response_no_panic(resp) ==
    IF get_status_code(resp) \in 400..499 THEN "return_err" ELSE "pass"

\* Mutant: client errors abort the process as well.
handle_response_4xx_panic(resp) ==
    IF get_status_code(resp) \in 400..500 THEN "panic" ELSE "pass"

\* Mutant: every server error aborts the process.
handle_response_5xx_panic(resp) ==
    CASE get_status_code(resp) \in 400..499 -> "return_err"
      [] get_status_code(resp) \in 500..599 -> "panic"
      [] OTHER -> "pass"

\* The macro either returns Err from the enclosing function, panics, or
\* falls through to the rest of the function.
handle_response(resp) ==
    CASE get_status_code(resp) \in 400..499 -> "return_err"
      [] get_status_code(resp) = 500 -> "panic"
      [] OTHER -> "pass"

\* Mutant: the version is stored as given.
format_version_string_keep(v) == v

format_version_string(v) ==
    IF Len(v) > 0 /\ Head(v) = "/" THEN Tail(v) ELSE v

\* serde_json::to_string on the handler's output.
to_string(out) ==
    CASE out = "o1" -> Ok("\"o1\"")
      [] out = "o2" -> Ok("\"o2\"")
      [] OTHER -> Err("key must be a string")

\* format!("{}", &err) through the error's Display implementation.
Display(err) ==
    CASE err = "e1" -> "error one"
      [] OTHER -> "error two"

\* Mutant: the new id is also written over the handler field.
set_trace_id_clobber(env, new_id) ==
    [env EXCEPT !.trace_id = new_id, !.handler = new_id]

set_trace_id(env, new_id) == [env EXCEPT !.trace_id = new_id]

---------------------------------------------------------------------------
\* State

VARIABLES
    pc,             \* where run() stands: "init", "init_error", "next",
                    \* "missing_request_id", "lambda", "report", "panicked"
    env_vars,       \* DefaultRuntime.env_vars (a LambdaRuntimeEnv)
    trace_var,      \* the process environment variable _X_AMZN_TRACE_ID
    version,        \* DefaultRuntime.version
    api_base,       \* DefaultRuntime.api_base
    init_result,    \* what the initializer returned, None before it ran
    next,           \* run()'s next_resp of the current iteration
    lambda_output,  \* run()'s lambda_output of the current iteration
    invoked,        \* arguments of the handler call of the current iteration
    exchanges,      \* requests sent since the current iteration began (or
                    \* during initialization), each with the transport's answer
    ret,            \* which runtime method returned last, and how
    polls,          \* number of next_invocation calls so far
    handler_calls,  \* number of handler calls so far
    init_calls,     \* number of initializer calls so far
    trace_sets,     \* number of set_trace_id calls the latest poll made
    fn_in,          \* the call under study when a function is run alone
    fn_out          \* and what it returned, None before it ran

vars == <<pc, env_vars, trace_var, version, api_base, init_result, next,
          lambda_output, invoked, exchanges, ret, polls, handler_calls,
          init_calls, trace_sets, fn_in, fn_out>>

\* LambdaRuntimeEnv::from_env in a container that sets every variable.
from_env ==
    [handler |-> Some("bootstrap"), region |-> Some("eu-west-1"),
     trace_id |-> None, execution_env |-> None,
     function_name |-> Some("fn"), function_memory_size |-> Some(128),
     function_version |-> Some("$LATEST"),
     initialization_type |-> "OnDemand",
     log_group_name |-> Some("group"), log_stream_name |-> Some("stream"),
     access_key |-> Some("ak"), access_key_id |-> Some("akid"),
     secret_access_key |-> Some("sk"), session_token |-> Some("st"),
     runtime_api |-> Some("127.0.0.1:9001"), task_root |-> Some("/var/task"),
     runtime_dir |-> Some("/var/runtime"), tz |-> Some(":UTC")]

\* The runtime as DefaultRuntime::new leaves it; `at` is where it stands.
Constructed(at) ==
    /\ pc = at
    /\ env_vars = from_env
    /\ trace_var = None
    /\ \E v \in VersionArgs : version = format_version_string(v)
    /\ api_base = Unwrap(from_env.runtime_api)
    /\ init_result = None
    /\ next = None
    /\ lambda_output = None
    /\ invoked = None
    /\ exchanges = <<>>
    /\ ret = [call |-> "none", ctl |-> "none"]
    /\ polls = 0
    /\ handler_calls = 0
    /\ init_calls = 0
    /\ trace_sets = 0

\* DefaultRuntime::new followed by the entry into run().
Init ==
    /\ Constructed("init")
    /\ fn_in = [fn |-> "run"]
    /\ fn_out = None

---------------------------------------------------------------------------
\* The four runtime methods, each given the answer `res` of its transport call

Request(method, url, body, headers) ==
    [method |-> method, url |-> url, body |-> body, headers |-> headers]

\* `transport.call(..)?; handle_response!(resp); Ok(resp)`
Returned(res) ==
    IF ~res.ok THEN "Err"
    ELSE CASE handle_response(res.val) = "return_err" -> "Err"
           [] handle_response(res.val) = "panic" -> "Panic"
           [] OTHER -> "Ok"

ErrorTypeHeaders(error_type) ==
    IF IsSome(error_type)
    THEN Some([names |-> <<AWS_FUNC_ERR_TYPE>>, values |-> <<Unwrap(error_type)>>])
    ELSE None

\* Mutant: the trace id is propagated before the status is looked at.
next_invocation_trace_first(res, env, tvar) ==
    LET req == Request("GET",
                  <<"http://", api_base, "/", version, "/runtime/invocation/next">>,
                  None, None)
        seen == res.ok /\ IsSome(res.val.trace_id)
    IN  [req |-> req, ctl |-> Returned(res),
         resp |-> IF Returned(res) = "Ok" THEN Some(res.val) ELSE None,
         env_vars |-> IF seen THEN set_trace_id(env, res.val.trace_id) ELSE env,
         trace_var |-> IF seen THEN res.val.trace_id ELSE tvar,
         sets |-> IF seen THEN 1 ELSE 0]

\* Mutant: the snapshot is updated, the process variable is not.
next_invocation_env_only(res, env, tvar) ==
    LET req == Request("GET",
                  <<"http://", api_base, "/", version, "/runtime/invocation/next">>,
                  None, None)
        ctl == Returned(res)
        set == ctl = "Ok" /\ IsSome(res.val.trace_id)
    IN  [req |-> req, ctl |-> ctl,
         resp |-> IF ctl = "Ok" THEN Some(res.val) ELSE None,
         env_vars |-> IF set THEN set_trace_id(env, res.val.trace_id) ELSE env,
         trace_var |-> tvar,
         sets |-> IF set THEN 1 ELSE 0]

\* Mutant: the trace id of every passed response is stored, absent or not.
next_invocation_always_set(res, env, tvar) ==
    LET req == Request("GET",
                  <<"http://", api_base, "/", version, "/runtime/invocation/next">>,
                  None, None)
        ctl == Returned(res)
        set == ctl = "Ok"
    IN  [req |-> req, ctl |-> ctl,
         resp |-> IF ctl = "Ok" THEN Some(res.val) ELSE None,
         env_vars |-> IF set THEN set_trace_id(env, res.val.trace_id) ELSE env,
         trace_var |-> IF set THEN res.val.trace_id ELSE tvar,
         sets |-> IF set THEN 1 ELSE 0]

\* Mutant: the trace id is propagated only along with a request id.
next_invocation_trace_needs_id(res, env, tvar) ==
    LET req == Request("GET",
                  <<"http://", api_base, "/", version, "/runtime/invocation/next">>,
                  None, None)
        ctl == Returned(res)
        set == ctl = "Ok" /\ IsSome(res.val.trace_id)
                 /\ IsSome(res.val.request_id)
    IN  [req |-> req, ctl |-> ctl,
         resp |-> IF ctl = "Ok" THEN Some(res.val) ELSE None,
         env_vars |-> IF set THEN set_trace_id(env, res.val.trace_id) ELSE env,
         trace_var |-> IF set THEN res.val.trace_id ELSE tvar,
         sets |-> IF set THEN 1 ELSE 0]

next_invocation(res, env, tvar) ==
    LET req == Request("GET",
                  <<"http://", api_base, "/", version, "/runtime/invocation/next">>,
                  None, None)
        ctl == Returned(res)
        set == ctl = "Ok" /\ IsSome(res.val.trace_id)
    IN  [req |-> req, ctl |-> ctl,
         resp |-> IF ctl = "Ok" THEN Some(res.val) ELSE None,
         env_vars |-> IF set THEN set_trace_id(env, res.val.trace_id) ELSE env,
         trace_var |-> IF set THEN res.val.trace_id ELSE tvar,
         sets |-> IF set THEN 1 ELSE 0]

\* Mutant: the result is posted to the error endpoint.
invocation_response_wrong_path(request_id, response, res) ==
    LET serialized == to_string(response)
    IN  IF ~serialized.ok
        THEN [sent |-> FALSE, req |-> None, ctl |-> "Err"]
        ELSE [sent |-> TRUE,
              req |-> Request("POST",
                         <<"http://", api_base, "/", version,
                           "/runtime/invocation/", request_id, "/error">>,
                         Some(serialized.val), None),
              ctl |-> Returned(res)]

invocation_response(request_id, response, res) ==
    LET serialized == to_string(response)
    IN  IF ~serialized.ok
        THEN [sent |-> FALSE, req |-> None, ctl |-> "Err"]
        ELSE [sent |-> TRUE,
              req |-> Request("POST",
                         <<"http://", api_base, "/", version,
                           "/runtime/invocation/", request_id, "/response">>,
                         Some(serialized.val), None),
              ctl |-> Returned(res)]

initialization_error(error_type, error_req, res) ==
    [sent |-> TRUE,
     req |-> Request("POST",
                <<"http://", api_base, "/", version, "/runtime/init/error">>,
                error_req, ErrorTypeHeaders(error_type)),
     ctl |-> Returned(res)]

\* Mutant: the error text is sent as the header only.
invocation_error_no_body(request_id, error_type, error_req, res) ==
    [sent |-> TRUE,
     req |-> Request("POST",
                <<"http://", api_base, "/", version, "/runtime/invocation/",
                  request_id, "/error">>,
                None, ErrorTypeHeaders(error_type)),
     ctl |-> Returned(res)]

invocation_error(request_id, error_type, error_req, res) ==
    [sent |-> TRUE,
     req |-> Request("POST",
                <<"http://", api_base, "/", version, "/runtime/invocation/",
                  request_id, "/error">>,
                error_req, ErrorTypeHeaders(error_type)),
     ctl |-> Returned(res)]

---------------------------------------------------------------------------
\* run(): one action per call the loop makes to the outside

Exchange(req, res) == [req |-> req, res |-> res]

\* Mutant: a reported initialization error lets the loop start.
after_init_error_resume(ctl) == IF ctl = "Ok" THEN "next" ELSE "panicked"

\* The match on the report's result and the panic! after it: every arm panics.
after_init_error(ctl) ==
    CASE ctl = "Ok" -> "panicked"
      [] ctl = "Err" -> "panicked"
      [] OTHER -> "panicked"

\* Mutant: a failed poll is fatal.
after_next_invocation_fatal(n) ==
    CASE n.ctl = "Panic" -> "panicked"
      [] n.ctl = "Err" -> "panicked"
      [] IsSome(Unwrap(n.resp).request_id) -> "lambda"
      [] OTHER -> "missing_request_id"

\* Mutant: a failed poll leaves the loop.
after_next_invocation_break(n) ==
    CASE n.ctl = "Panic" -> "panicked"
      [] n.ctl = "Err" -> "returned"
      [] IsSome(Unwrap(n.resp).request_id) -> "lambda"
      [] OTHER -> "missing_request_id"

\* Mutant: a failed poll sends run() back to its beginning.
after_next_invocation_reinit(n) ==
    CASE n.ctl = "Panic" -> "panicked"
      [] n.ctl = "Err" -> "init"
      [] IsSome(Unwrap(n.resp).request_id) -> "lambda"
      [] OTHER -> "missing_request_id"

\* `if next.is_err() { continue; }` and the match on aws_request_id().
after_next_invocation(n) ==
    CASE n.ctl = "Panic" -> "panicked"
      [] n.ctl = "Err" -> "next"
      [] IsSome(Unwrap(n.resp).request_id) -> "lambda"
      [] OTHER -> "missing_request_id"

\* Mutant: a failed report is fatal.
after_report_fatal(ctl) == IF ctl = "Ok" THEN "next" ELSE "panicked"

\* `let _ = ...; continue` and `let _ = match ...` at the end of the loop
\* body: the result is dropped, a panic inside the call ends the process.
after_report(ctl) == IF ctl = "Panic" THEN "panicked" ELSE "next"

\* let init_result = (self.initializer)();
RunInitializer ==
    /\ pc = "init"
    /\ \E r \in InitResults :
        /\ init_result' = Some(r)
        /\ pc' = IF r.ok THEN "next" ELSE "init_error"
    /\ init_calls' = init_calls + 1
    /\ UNCHANGED <<env_vars, trace_var, version, api_base, next, lambda_output,
                   invoked, exchanges, ret, polls, handler_calls,
                   trace_sets, fn_in, fn_out>>

\* self.initialization_error(Some("Runtime.InitError"), None), then panic!
ReportInitError ==
    /\ pc = "init_error"
    /\ \E res \in PostResults :
        LET c == initialization_error(Some("Runtime.InitError"), None, res)
        IN  /\ exchanges' = Append(exchanges, Exchange(c.req, res))
            /\ ret' = [call |-> "initialization_error", ctl |-> c.ctl]
            /\ pc' = after_init_error(c.ctl)
    /\ UNCHANGED <<env_vars, trace_var, version, api_base, init_result, next,
                   lambda_output, invoked, polls, handler_calls, init_calls,
                   trace_sets, fn_in, fn_out>>

\* let next = self.next_invocation(); ... let request_id = match ...
NextInvocation ==
    /\ pc = "next"
    /\ polls < MaxPolls
    /\ \E res \in GetResults :
        LET n == next_invocation(res, env_vars, trace_var)
        IN  /\ exchanges' = <<Exchange(n.req, res)>>
            /\ env_vars' = n.env_vars
            /\ trace_var' = n.trace_var
            /\ trace_sets' = n.sets
            /\ ret' = [call |-> "next_invocation", ctl |-> n.ctl]
            /\ pc' = after_next_invocation(n)
            /\ next' = IF after_next_invocation(n) = "next" THEN None ELSE n.resp
    /\ polls' = polls + 1
    /\ lambda_output' = None
    /\ invoked' = None
    /\ UNCHANGED <<version, api_base, init_result, handler_calls, init_calls,
                   fn_in, fn_out>>

\* let _ = self.initialization_error(Some("Runtime.MissingRequestId"), None);
MissingRequestId ==
    /\ pc = "missing_request_id"
    /\ \E res \in PostResults :
        LET c == initialization_error(Some("Runtime.MissingRequestId"), None, res)
        IN  /\ exchanges' = Append(exchanges, Exchange(c.req, res))
            /\ ret' = [call |-> "initialization_error", ctl |-> c.ctl]
            /\ pc' = after_report(c.ctl)
    /\ next' = None
    /\ UNCHANGED <<env_vars, trace_var, version, api_base, init_result,
                   lambda_output, invoked, polls, handler_calls, init_calls,
                   trace_sets, fn_in, fn_out>>

\* let lambda_output = lambda(event, context);
InvokeLambda ==
    /\ pc = "lambda"
    /\ init_result /= None
    /\ Unwrap(init_result).ok
    /\ \E out \in LambdaResults : lambda_output' = Some(out)
    /\ invoked' = Some([lambda |-> Unwrap(init_result).val,
                        event |-> event_response(Unwrap(next)),
                        context |-> [env_vars |-> env_vars,
                                     invo_resp |-> Unwrap(next)],
                        trace_var |-> trace_var])
    /\ handler_calls' = handler_calls + 1
    /\ pc' = "report"
    /\ UNCHANGED <<env_vars, trace_var, version, api_base, init_result, next,
                   exchanges, ret, polls, init_calls,
                   trace_sets, fn_in, fn_out>>

\* Ok(out) => self.invocation_response(request_id, &out)
ReportResponse ==
    /\ pc = "report"
    /\ Unwrap(lambda_output).ok
    /\ \E res \in PostResults :
        LET request_id == Unwrap(Unwrap(next).request_id)
            c == invocation_response(request_id, Unwrap(lambda_output).val, res)
        IN  /\ exchanges' = IF c.sent
                            THEN Append(exchanges, Exchange(c.req, res))
                            ELSE exchanges
            /\ ret' = [call |-> "invocation_response", ctl |-> c.ctl]
            /\ pc' = after_report(c.ctl)
    /\ next' = None
    /\ UNCHANGED <<env_vars, trace_var, version, api_base, init_result,
                   lambda_output, invoked, polls, handler_calls, init_calls,
                   trace_sets, fn_in, fn_out>>

\* Err(err) => self.invocation_error(request_id, Some(&_err), Some(&_err))
ReportError ==
    /\ pc = "report"
    /\ ~Unwrap(lambda_output).ok
    /\ \E res \in PostResults :
        LET request_id == Unwrap(Unwrap(next).request_id)
            _err == Display(Unwrap(lambda_output).val)
            c == invocation_error(request_id, Some(_err), Some(_err), res)
        IN  /\ exchanges' = Append(exchanges, Exchange(c.req, res))
            /\ ret' = [call |-> "invocation_error", ctl |-> c.ctl]
            /\ pc' = after_report(c.ctl)
    /\ next' = None
    /\ UNCHANGED <<env_vars, trace_var, version, api_base, init_result,
                   lambda_output, invoked, polls, handler_calls, init_calls,
                   trace_sets, fn_in, fn_out>>

Next ==
    \/ RunInitializer
    \/ ReportInitError
    \/ NextInvocation
    \/ MissingRequestId
    \/ InvokeLambda
    \/ ReportResponse
    \/ ReportError

Spec == Init /\ [][Next]_vars

---------------------------------------------------------------------------
\* Reading the observations

InitFailed == init_result /= None /\ ~Unwrap(init_result).ok

\* The current iteration's poll and what the transport answered to it.
Polled == Len(exchanges) >= 1 /\ exchanges[1].req.method = "GET"
PollFailed == Polled /\ ~exchanges[1].res.ok
PollAnswered(S) ==
    Polled /\ exchanges[1].res.ok /\ exchanges[1].res.val.status \in S
PollReply == exchanges[1].res.val

\* The last request sent and what the transport answered to it.
Last == exchanges[Len(exchanges)]
LastAnswered(S) ==
    Len(exchanges) >= 1 /\ Last.res.ok /\ Last.res.val.status \in S
NumPosts == Cardinality({i \in 1..Len(exchanges) : exchanges[i].req.method = "POST"})

Url(path) == <<"http://", api_base, "/", version>> \o path
InitErrorUrl == Url(<<"/runtime/init/error">>)
ResponseUrl(rid) == Url(<<"/runtime/invocation/", rid, "/response">>)
ErrorUrl(rid) == Url(<<"/runtime/invocation/", rid, "/error">>)

\* A report call of the loop body has returned (or panicked).
MissingIdReported ==
    /\ ret.call = "initialization_error"
    /\ ~InitFailed
ResponseReturned == ret.call = "invocation_response"
ErrorReturned == ret.call = "invocation_error"
Serializes == lambda_output /= None /\ Unwrap(lambda_output).ok
                 /\ to_string(Unwrap(lambda_output).val).ok
InvokedRid == Unwrap(Unwrap(invoked).context.invo_resp.request_id)

---------------------------------------------------------------------------
\* C1: whichever call of the runtime is answered with a status in 500..599
\* (the poll, either report, the init-error report), the process terminates:
\* that answer is the last exchange, and the handler did not run after it.
C1_Any5xxTerminates ==
    \A i \in 1..Len(exchanges) :
        (exchanges[i].res.ok /\ exchanges[i].res.val.status \in 500..599)
            => /\ pc = "panicked"
               /\ i = Len(exchanges)
               /\ (i = 1 /\ Polled => invoked = None)

\* C2 as claimed: a poll answered 500 ends the process after exactly one
\* report POST.
C2_Poll500OneReportThenExit ==
    PollAnswered({500}) =>
        /\ pc \in {"init_error", "missing_request_id", "panicked"}
        /\ (pc = "panicked" => NumPosts = 1)

\* C2 as amended: a poll answered 500 ends the process in that very step,
\* with no report POST and no handler call.
C2_Poll500ExitsWithoutReport ==
    PollAnswered({500}) =>
        /\ pc = "panicked"
        /\ Len(exchanges) = 1
        /\ NumPosts = 0
        /\ invoked = None

C2_Witness == PollAnswered({500}) /\ pc = "panicked" /\ polls = 2

\* C3 as claimed: a transport failure of the poll is fatal, the loop does not
\* return to polling.
C3_PollFailureFatal ==
    PollFailed /\ ret.call = "next_invocation" => pc /= "next"

\* C3 as amended: a transport failure of the poll is not fatal: nothing is
\* reported, the handler is not called, the process lives and the loop is
\* back at the poll.
C3_PollFailureSkipsIteration ==
    PollFailed =>
        /\ pc = "next"
        /\ Len(exchanges) = 1
        /\ invoked = None
        /\ next = None

C3_Witness == PollFailed /\ pc = "next" /\ polls = 2

\* C4: a poll answered 400..499 skips the iteration: no handler call, no
\* report, the snapshot's trace id (and the process variable) untouched,
\* the process alive and the loop back at the poll.
C4_ClientErrorSkipsIteration ==
    [][(pc = "next" /\ polls' = polls + 1 /\ PollAnswered(400..499)')
        => /\ pc' = "next"
           /\ handler_calls' = handler_calls
           /\ invoked' = None
           /\ exchanges' = <<exchanges'[1]>>
           /\ env_vars' = env_vars
           /\ trace_var' = trace_var]_vars

\* A 4xx answer carrying a trace id other than the one the snapshot holds.
C4_Witness ==
    /\ PollAnswered(400..499)
    /\ pc = "next"
    /\ IsSome(PollReply.trace_id)
    /\ IsSome(env_vars.trace_id)
    /\ PollReply.trace_id /= env_vars.trace_id

\* C5 as claimed: after the report of a missing request id the loop is back
\* at the poll whatever the report's outcome.
C5_MissingIdAlwaysContinues ==
    MissingIdReported =>
        /\ invoked = None
        /\ NumPosts = 1
        /\ pc = "next"

\* C5 as amended: a poll reply that passed the status check without a
\* request id leads to no handler call and to exactly one report, a POST of
\* Runtime.MissingRequestId; the loop is then back at the poll for a transport
\* failure and for every status of the answer but 500, on which the process
\* terminates.
C5_MissingIdReportedOnce ==
    (Polled /\ exchanges[1].res.ok /\ PollReply.status \notin 400..500
            /\ PollReply.request_id = None)
        => /\ invoked = None
           /\ \/ pc = "missing_request_id" /\ Len(exchanges) = 1
              \/ /\ MissingIdReported
                 /\ Len(exchanges) = 2
                 /\ NumPosts = 1
                 /\ Last.req.method = "POST"
                 /\ Last.req.headers
                      = Some([names |-> <<AWS_FUNC_ERR_TYPE>>,
                              values |-> <<"Runtime.MissingRequestId">>])
                 /\ pc = IF LastAnswered({500}) THEN "panicked" ELSE "next"

\* The report failed in transit and the loop went on.
C5_Witness ==
    /\ MissingIdReported
    /\ Len(exchanges) = 2
    /\ ~Last.res.ok
    /\ pc = "next"

\* What C6 states of the requests: one POST, to the response endpoint of
\* this iteration's request id, the serialized output as its body.
C6_Requests ==
    /\ Len(exchanges) = 2
    /\ NumPosts = 1
    /\ Last.req.method = "POST"
    /\ InvokedRid = Unwrap(PollReply.request_id)
    /\ Last.req.url = ResponseUrl(Unwrap(PollReply.request_id))
    /\ Last.req.body = Some(to_string(Unwrap(lambda_output).val).val)

\* C6 as claimed: a success output that serializes is POSTed once, to the
\* response endpoint of this iteration's request id, nothing goes to the
\* error endpoint, and the loop continues to the next poll.
C6_ResponsePostedAndContinues ==
    ResponseReturned /\ Serializes => C6_Requests /\ pc = "next"

\* C6 as amended: the same, except that the loop continues only if the POST
\* is not answered with status 500; on 500 the process terminates.
C6_ResponsePostedOnce ==
    ResponseReturned /\ Serializes
        => /\ C6_Requests
           /\ pc = IF LastAnswered({500}) THEN "panicked" ELSE "next"

\* The second iteration's output was posted and the loop went on.
C6_Witness ==
    /\ ResponseReturned
    /\ Serializes
    /\ polls = 2
    /\ LastAnswered({200})
    /\ pc = "next"

\* What C7 states of the requests: one POST, to the error endpoint of this
\* iteration's request id, the error's text as body and as error type.
C7_Requests ==
    /\ Len(exchanges) = 2
    /\ NumPosts = 1
    /\ Last.req.method = "POST"
    /\ InvokedRid = Unwrap(PollReply.request_id)
    /\ Last.req.url = ErrorUrl(Unwrap(PollReply.request_id))
    /\ Last.req.body = Some(Display(Unwrap(lambda_output).val))
    /\ Last.req.headers
         = Some([names |-> <<AWS_FUNC_ERR_TYPE>>,
                 values |-> <<Display(Unwrap(lambda_output).val)>>])

\* C7 as claimed: a handler error is POSTed once, to the error endpoint of
\* this iteration's request id, nothing goes to the response endpoint, and
\* the loop continues to the next poll.
C7_ErrorPostedAndContinues ==
    ErrorReturned => C7_Requests /\ pc = "next"

\* C7 as amended: the same, except that the loop continues only if the POST
\* is not answered with status 500; on 500 the process terminates.
C7_ErrorPostedOnce ==
    ErrorReturned
        => /\ ~Unwrap(lambda_output).ok
           /\ C7_Requests
           /\ pc = IF LastAnswered({500}) THEN "panicked" ELSE "next"

C7_Witness ==
    /\ ErrorReturned
    /\ polls = 2
    /\ LastAnswered({200})
    /\ pc = "next"

\* C8: once the initializer has failed, one POST goes to the init-error
\* endpoint and the process terminates whatever the answer; no poll is
\* issued and the handler is never called.
C8_InitFailureReportsOnceAndExits ==
    InitFailed =>
        /\ polls = 0
        /\ handler_calls = 0
        /\ init_calls = 1
        /\ \/ pc = "init_error" /\ exchanges = <<>>
           \/ /\ pc = "panicked"
              /\ Len(exchanges) = 1
              /\ exchanges[1].req
                   = Request("POST", InitErrorUrl, None,
                             Some([names |-> <<AWS_FUNC_ERR_TYPE>>,
                                   values |-> <<"Runtime.InitError">>]))

\* The init-error report was accepted, and the process ended all the same.
C8_Witness ==
    /\ InitFailed
    /\ pc = "panicked"
    /\ LastAnswered(200..299)

\* C9: the answer to an invocation-response or invocation-error POST is
\* banded like the poll's: 500..599 terminates the process, 400..499 is
\* ignored and the loop is back at the poll.
C9_ReportBanding ==
    ((ResponseReturned \/ ErrorReturned) /\ Len(exchanges) = 2)
        => /\ LastAnswered(500..599) => pc = "panicked"
           /\ LastAnswered(400..499) => pc = "next"

\* C10: the process terminates only after a failed initializer or a 5xx
\* answer; a transport failure, a 4xx answer, a missing request id, a handler
\* error and a serialization failure each leave the loop back at the poll
\* (unless the report they cause is itself answered 5xx).
C10_OnlyFatalCausesTerminate ==
    /\ pc = "panicked" => (InitFailed \/ LastAnswered(500..599))
    /\ ~InitFailed /\ Len(exchanges) >= 1 /\ ~Last.res.ok => pc = "next"
    /\ ~InitFailed /\ LastAnswered(400..499) => pc = "next"
    /\ MissingIdReported /\ ~LastAnswered(500..599) => pc = "next"
    /\ ErrorReturned /\ ~LastAnswered(500..599) => pc = "next"
    /\ (ResponseReturned /\ ~Serializes) => pc = "next" /\ Len(exchanges) = 1

\* The process was ended by a 500 answer to the report of a handler error.
C10_Witness ==
    /\ pc = "panicked"
    /\ ~InitFailed
    /\ ErrorReturned
    /\ LastAnswered({500})

---------------------------------------------------------------------------
\* The poll's answer went through handle_response! without Err or panic.
PollPassed == Polled /\ exchanges[1].res.ok /\ PollReply.status \notin 400..500

\* C11: a success output that does not serialize is not POSTed to the
\* response endpoint; the failure is POSTed to the error endpoint of this
\* iteration's request id, and the loop goes on.
C11_SerializationFailureReported ==
    (ResponseReturned /\ ~Serializes)
        => /\ \A i \in 1..Len(exchanges) :
                  exchanges[i].req.url /= ResponseUrl(InvokedRid)
           /\ Len(exchanges) = 2
           /\ Last.req.method = "POST"
           /\ Last.req.url = ErrorUrl(InvokedRid)

\* C12: once the handler has run in an iteration, exactly one report (the
\* response POST or the error POST, for the request id the handler was
\* invoked with) is sent before the loop is back at the poll; the handler
\* runs at most once per poll and nothing is sent for it before it ran.
C12_OneReportPerInvocation ==
    /\ handler_calls <= polls
    /\ pc = "report" => invoked /= None /\ NumPosts = 0
    /\ (invoked /= None /\ pc \in {"next", "panicked"})
        => /\ Len(exchanges) = 2
           /\ NumPosts = 1
           /\ Last.req.url \in {ResponseUrl(InvokedRid), ErrorUrl(InvokedRid)}

\* C13: when the handler is invoked for a poll response carrying trace id t,
\* the snapshot read through the context and the process variable both hold
\* t already; the two are written in one and the same poll step, to the
\* trace id of that poll's response, and in no other step.
C13_TraceVisibleToHandler ==
    [][/\ (pc = "lambda" /\ pc' = "report" /\ IsSome(Unwrap(next).trace_id))
           => /\ env_vars.trace_id = Unwrap(next).trace_id
              /\ trace_var = Unwrap(next).trace_id
              /\ Unwrap(invoked').context.env_vars.trace_id
                   = Unwrap(next).trace_id
              /\ Unwrap(invoked').trace_var = Unwrap(next).trace_id
       /\ (env_vars' /= env_vars \/ trace_var' /= trace_var)
           => pc = "next" /\ trace_sets' = 1
       /\ (pc = "next" /\ polls' = polls + 1 /\ trace_sets' = 1)
           => /\ env_vars'.trace_id = exchanges'[1].res.val.trace_id
              /\ trace_var' = exchanges'[1].res.val.trace_id
              /\ IsSome(trace_var')]_vars

\* The handler ran on the second poll's response, which carried trace id t2.
C13_Witness ==
    /\ invoked /= None
    /\ polls = 2
    /\ IsSome(Unwrap(invoked).context.invo_resp.trace_id)
    /\ Unwrap(invoked).trace_var = Some("t2")

\* C14 as claimed: set_trace_id is called once by every poll whose response
\* passed the status check and by no other poll.
C14_SetOncePerSuccessfulPoll ==
    trace_sets = IF PollPassed THEN 1 ELSE 0

\* C14 as amended: set_trace_id is called once by every poll whose response
\* passed the status check and carries a trace id, and not at all by a poll
\* that failed or whose response carries no trace id.
C14_SetOncePerTraceId ==
    trace_sets = IF PollPassed /\ IsSome(PollReply.trace_id) THEN 1 ELSE 0

C14_Witness == trace_sets = 1 /\ polls = 2 /\ pc = "lambda"

\* C15: every field of the snapshot but the trace id keeps the value it had
\* at construction, in the runtime and in the context handed to the handler.
C15_OnlyTraceIdMutated ==
    /\ \A f \in DOMAIN from_env \ {"trace_id"} : env_vars[f] = from_env[f]
    /\ invoked /= None =>
         \A f \in DOMAIN from_env \ {"trace_id"} :
             Unwrap(invoked).context.env_vars[f] = from_env[f]

\* The second poll has set the trace id and the handler has been invoked.
C15_Witness ==
    /\ polls = 2
    /\ trace_sets = 1
    /\ invoked /= None
    /\ env_vars.trace_id = Some("t2")

---------------------------------------------------------------------------
\* The data layer's functions run alone: Init draws the arguments, one
\* action per function applies it.

AllStatusCodes == 100..599
ClockTimes == (-1)..MaxTime
Deadlines == Opt(0..MaxTime)

FnInputs ==
    [fn : {"status"}, status : AllStatusCodes]
        \cup [fn : {"remaining"}, deadline : Deadlines, now : ClockTimes]

FnInit ==
    /\ Constructed("fn")
    /\ fn_in \in FnInputs
    /\ fn_out = None

RunVars == <<pc, env_vars, trace_var, version, api_base, init_result, next,
             lambda_output, invoked, exchanges, ret, polls, handler_calls,
             init_calls, trace_sets>>

\* is_success, is_client_err, is_server_err and is_err of one response.
ClassifyStatus ==
    /\ fn_in.fn = "status"
    /\ fn_out = None
    /\ LET resp == [status |-> fn_in.status]
       IN  fn_out' = Some([is_success |-> is_success(resp),
                           is_client_err |-> is_client_err(resp),
                           is_server_err |-> is_server_err(resp)])
    /\ UNCHANGED <<RunVars, fn_in>>

\* context.get_remaining_time_ms() at clock reading fn_in.now.
GetRemainingTime ==
    /\ fn_in.fn = "remaining"
    /\ fn_out = None
    /\ fn_out' = Some(get_remaining_time_ms(fn_in.deadline, fn_in.now))
    /\ UNCHANGED <<RunVars, fn_in>>

FnNext ==
    \/ ClassifyStatus
    \/ GetRemainingTime

SpecFn == FnInit /\ [][FnNext]_vars

Applied(f) == fn_in.fn = f /\ fn_out /= None
Result == Unwrap(fn_out)
BandsHolding ==
    Cardinality({b \in {"is_success", "is_client_err", "is_server_err"} :
                     Result[b]})

\* C16 as claimed: for every status in 100..599 exactly one of is_success,
\* is_client_err, is_server_err holds, and it is is_success in 200..299.
C16_BandsExhaustive ==
    Applied("status") =>
        /\ BandsHolding = 1
        /\ fn_in.status \in 200..299 => Result.is_success

\* C16 as amended: for every status in 100..599 at most one of the three
\* holds; exactly one holds in 200..299 (is_success), 400..499
\* (is_client_err) and 500..599 (is_server_err), none in 100..199 and
\* 300..399.
C16_BandsExclusive ==
    Applied("status") =>
        /\ BandsHolding <= 1
        /\ Result.is_success <=> fn_in.status \in 200..299
        /\ Result.is_client_err <=> fn_in.status \in 400..499
        /\ Result.is_server_err <=> fn_in.status \in 500..599
        /\ BandsHolding = 0
             <=> fn_in.status \in (100..199) \cup (300..399)

C16_Witness == Applied("status") /\ fn_in.status = 500 /\ BandsHolding = 1

\* C17 as claimed: without a deadline the result is the missing-deadline
\* failure at every clock reading.
C17_MissingDeadlineAlways ==
    (Applied("remaining") /\ fn_in.deadline = None)
        => ~Result.ok /\ Result.val = "Missing deadline info"

\* C17 as amended: without a deadline the result is the missing-deadline
\* failure at every clock reading at or after the Unix epoch, and the clock
\* failure of duration_since at a reading before the epoch; it is never a
\* duration.
C17_MissingDeadlineFails ==
    (Applied("remaining") /\ fn_in.deadline = None)
        => /\ ~Result.ok
           /\ Result.val = IF fn_in.now >= 0
                           THEN "Missing deadline info"
                           ELSE "second time provided was later than self"

C17_Witness ==
    /\ Applied("remaining")
    /\ fn_in.deadline = None
    /\ fn_in.now = MaxTime
    /\ ~Result.ok

\* C18: for a deadline d and a clock reading n, both durations since the
\* epoch: d < n gives the arithmetic failure, d >= n gives exactly d - n,
\* which is zero for d = n and never negative.
C18_CheckedSubtraction ==
    (Applied("remaining") /\ fn_in.deadline /= None /\ fn_in.now >= 0)
        => LET d == Unwrap(fn_in.deadline)
               n == fn_in.now
           IN  /\ d < n => ~Result.ok /\ Result.val = "Duration error"
               /\ d >= n => Result.ok /\ Result.val = d - n /\ Result.val >= 0

\* The deadline had passed and the call failed.
C18_Witness ==
    /\ Applied("remaining")
    /\ fn_in.deadline = Some(1)
    /\ fn_in.now = 2
    /\ ~Result.ok

---------------------------------------------------------------------------
\* Construction made a step of its own: Init draws the version argument and
\* the AWS_LAMBDA_RUNTIME_API variable of the process, New is
\* DefaultRuntime::new, and run() follows.

NewVersionArgs == VersionArgs \cup {<<"/", "/", "V">>}

NewInputs ==
    [fn : {"new"}, version : NewVersionArgs,
     runtime_api : Opt({Unwrap(from_env.runtime_api)})]

NewInit ==
    /\ pc = "new"
    /\ fn_in \in NewInputs
    /\ fn_out = None
    /\ env_vars = None
    /\ version = <<>>
    /\ api_base = ""
    /\ trace_var = None
    /\ init_result = None
    /\ next = None
    /\ lambda_output = None
    /\ invoked = None
    /\ exchanges = <<>>
    /\ ret = [call |-> "none", ctl |-> "none"]
    /\ polls = 0
    /\ handler_calls = 0
    /\ init_calls = 0
    /\ trace_sets = 0

\* Mutant: a missing address falls back to a default one.
get_runtime_api_or_default(env) ==
    IF env.runtime_api = None THEN Some("localhost:9001") ELSE env.runtime_api

\* RuntimeEnvVars::get_runtime_api
get_runtime_api(env) == env.runtime_api

\* DefaultRuntime::new(version, initializer)
New ==
    /\ pc = "new"
    /\ LET env == [from_env EXCEPT !.runtime_api = fn_in.runtime_api]
       IN  IF get_runtime_api(env) = None
           THEN /\ pc' = "panicked"
                /\ UNCHANGED <<env_vars, api_base, version>>
           ELSE /\ env_vars' = env
                /\ api_base' = Unwrap(get_runtime_api(env))
                /\ version' = format_version_string(fn_in.version)
                /\ pc' = "init"
    /\ UNCHANGED <<trace_var, init_result, next, lambda_output, invoked,
                   exchanges, ret, polls, handler_calls, init_calls,
                   trace_sets, fn_in, fn_out>>

NewNext ==
    \/ New
    \/ Next

SpecNew == NewInit /\ [][NewNext]_vars

\* DefaultRuntime::new returned a runtime.
Built == pc /= "new" /\ IsSome(fn_in.runtime_api)

\* The version argument less one leading "/", if it has one.
LessOneSlash(v) == IF v[1] = "/" THEN SubSeq(v, 2, Len(v)) ELSE v

\* C19: a runtime built with "/V" and one built with "V" send the same URLs
\* to all four endpoints: the stored version is the argument less exactly
\* one leading "/", every URL sent carries it, and it never changes after
\* construction.
C19_LeadingSlashStripped ==
    /\ [](Built =>
            /\ version = LessOneSlash(fn_in.version)
            /\ fn_in.version \in {<<"V">>, <<"/", "V">>} => version = <<"V">>
            /\ fn_in.version = <<"/", "/", "V">> => version = <<"/", "V">>
            /\ \A i \in 1..Len(exchanges) :
                 LET url == exchanges[i].req.url
                     base == <<"http://", Unwrap(fn_in.runtime_api), "/",
                               LessOneSlash(fn_in.version)>>
                 IN  \/ url = base \o <<"/runtime/invocation/next">>
                     \/ url = base \o <<"/runtime/init/error">>
                     \/ \E rid \in RequestIds :
                          \/ url = base \o <<"/runtime/invocation/", rid, "/response">>
                          \/ url = base \o <<"/runtime/invocation/", rid, "/error">>)
    /\ [][pc /= "new" => version' = version]_vars

\* A runtime built with "/V" has posted a result.
C19_Witness ==
    /\ Built
    /\ fn_in.version = <<"/", "V">>
    /\ ResponseReturned
    /\ Len(exchanges) = 2
    /\ Last.req.url = <<"http://", "127.0.0.1:9001", "/", <<"V">>,
                        "/runtime/invocation/", "r1", "/response">>

---------------------------------------------------------------------------
\* run() is one sequential thread: whenever it has a next step, and the call
\* that step makes returns, it takes the step.
SpecLive == Spec /\ WF_vars(Next)

\* C20 as claimed: from every state in which the process has not terminated
\* the loop eventually issues another poll, that is, the poll counter
\* eventually exceeds the value it has in that state.
C20_AlwaysPollsAgain ==
    \A k \in 0..(MaxPolls - 1) :
        (pc /= "panicked" /\ polls = k) ~> (polls > k)

\* C20 as amended: from every state in which the process has not terminated
\* the loop eventually issues another poll or the process terminates (after
\* a failed initializer or a 500 answer); it never stops otherwise, however
\* many polls have failed in a row.  The poll counter only grows and a
\* terminated process stays terminated, so "the counter exceeds its value
\* or the process terminates", from every count below the cap, is the same
\* as "the counter reaches the cap or the process terminates".
C20_PollsAgainOrTerminates ==
    (pc /= "panicked" /\ polls < MaxPolls)
        ~> (pc = "panicked" \/ polls = MaxPolls)

\* The loop is back at the poll after its second poll failed as well.
C20_Witness ==
    /\ pc = "next"
    /\ polls = 2
    /\ ret = [call |-> "next_invocation", ctl |-> "Err"]

---------------------------------------------------------------------------
\* A report of the handler's outcome failed in transit: the POST was sent and
\* the transport returned Err.
ReportLostInTransit ==
    /\ (ResponseReturned \/ ErrorReturned)
    /\ Len(exchanges) = 2
    /\ ~Last.res.ok

\* C21: a transport failure of the invocation-response POST or of the
\* invocation-error POST does not terminate the process: the report was
\* sent once, the loop stands at the poll, and the step that follows is a
\* poll (a GET), not another report.
C21_ReportTransportFailureNotFatal ==
    /\ [](ReportLostInTransit => pc = "next" /\ NumPosts = 1)
    /\ [][ReportLostInTransit
            => /\ polls' = polls + 1
               /\ exchanges'[1].req.method = "GET"
               /\ exchanges'[1].req.url = Url(<<"/runtime/invocation/next">>)]_vars

\* The error POST of the first iteration failed in transit; the loop stands
\* at the poll with a poll still to come.
C21_Witness ==
    /\ ReportLostInTransit
    /\ ErrorReturned
    /\ polls = 1
    /\ pc = "next"

---------------------------------------------------------------------------
\* The ureq backend (src/src/backends/ureq.rs) run alone.  A ureq::Response
\* is given by its status, by what header(name) returns for each of the six
\* Lambda headers, and by what into_string() returns.

\* Longest header list handed to a request.
MaxHeaders == 2

Digits == {"0", "1", "2", "3", "4", "5", "6", "7", "8", "9"}

DigitValue(c) ==
    CASE c = "0" -> 0 [] c = "1" -> 1 [] c = "2" -> 2 [] c = "3" -> 3
      [] c = "4" -> 4 [] c = "5" -> 5 [] c = "6" -> 6 [] c = "7" -> 7
      [] c = "8" -> 8 [] OTHER -> 9

RECURSIVE DecimalValue(_)
DecimalValue(ds) ==
    IF ds = <<>> THEN 0
    ELSE 10 * DecimalValue(SubSeq(ds, 1, Len(ds) - 1)) + DigitValue(ds[Len(ds)])

RECURSIVE StripZeros(_)
StripZeros(ds) ==
    IF Len(ds) > 1 /\ Head(ds) = "0" THEN StripZeros(Tail(ds)) ELSE ds

\* u64::MAX, digit by digit.
U64_MAX_DIGITS ==
    <<"1", "8", "4", "4", "6", "7", "4", "4", "0", "7",
      "3", "7", "0", "9", "5", "5", "1", "6", "1", "5">>

\* Two digit strings of one length, compared as numbers.
RECURSIVE DigitsGreater(_, _)
DigitsGreater(a, b) ==
    IF a = <<>> THEN FALSE
    ELSE IF DigitValue(Head(a)) /= DigitValue(Head(b))
         THEN DigitValue(Head(a)) > DigitValue(Head(b))
         ELSE DigitsGreater(Tail(a), Tail(b))

\* str::parse::<u64>: an optional "+", then one or more decimal digits whose
\* value fits 64 bits; everything else is a ParseIntError.
parse_u64(ms) ==
    LET ds == IF Len(ms) > 0 /\ Head(ms) = "+" THEN Tail(ms) ELSE ms
    IN  IF ds = <<>> THEN Err("cannot parse integer from empty string")
        ELSE IF \E i \in 1..Len(ds) : ds[i] \notin Digits
        THEN Err("invalid digit found in string")
        ELSE LET z == StripZeros(ds)
             IN  IF \/ Len(z) > Len(U64_MAX_DIGITS)
                    \/ Len(z) = Len(U64_MAX_DIGITS)
                         /\ DigitsGreater(z, U64_MAX_DIGITS)
                 THEN Err("number too large to fit in target type")
                 ELSE Ok(DecimalValue(z))

\* The match on resp.header(AWS_DEADLINE_MS): a header that does not parse
\* gives None, as a missing one does.
parse_deadline(header) ==
    IF header = None THEN None
    ELSE IF parse_u64(Unwrap(header)).ok
         THEN Some(parse_u64(Unwrap(header)).val)
         ELSE None

\* copy_str_header!(resp, header)
copy_str_header(resp, header) == resp.headers[header]

\* Mutant: a deadline that does not parse fails the whole response.
from_response_strict_deadline(resp) ==
    IF resp.headers.request_id = None
    THEN Err([msg |-> "Missing Lambda-Runtime-Aws-Request-Id header"])
    ELSE IF /\ resp.headers.deadline_ms /= None
            /\ ~parse_u64(Unwrap(resp.headers.deadline_ms)).ok
    THEN Err([msg |-> parse_u64(Unwrap(resp.headers.deadline_ms)).val])
    ELSE IF ~resp.into_string.ok
    THEN Err([msg |-> resp.into_string.val])
    ELSE Ok([body |-> Some(resp.into_string.val),
             status |-> resp.status,
             _request_id |-> Unwrap(resp.headers.request_id),
             _deadline |-> parse_deadline(resp.headers.deadline_ms),
             _arn |-> copy_str_header(resp, "arn"),
             _trace_id |-> copy_str_header(resp, "trace_id"),
             _cognito_id |-> copy_str_header(resp, "cognito_id"),
             _client_context |-> copy_str_header(resp, "client_context")])

\* UreqResponse::from_response
from_response(resp) ==
    IF resp.headers.request_id = None
    THEN Err([msg |-> "Missing Lambda-Runtime-Aws-Request-Id header"])
    ELSE IF ~resp.into_string.ok
    THEN Err([msg |-> resp.into_string.val])
    ELSE Ok([body |-> Some(resp.into_string.val),
             status |-> resp.status,
             _request_id |-> Unwrap(resp.headers.request_id),
             _deadline |-> parse_deadline(resp.headers.deadline_ms),
             _arn |-> copy_str_header(resp, "arn"),
             _trace_id |-> copy_str_header(resp, "trace_id"),
             _cognito_id |-> copy_str_header(resp, "cognito_id"),
             _client_context |-> copy_str_header(resp, "client_context")])

\* impl LambdaAPIResponse for UreqResponse: the getters.
aws_request_id(r) == Some(r._request_id)
deadline(r) == r._deadline

Min(a, b) == IF a <= b THEN a ELSE b

\* What UreqTransport::request makes of its arguments, `outcome` being what
\* the agent's send_string or call returns: the header pairs it sets on the
\* request, in the order of the set calls, the way the request is sent, and
\* the Result it returns.
SetCalls(headers) ==
    IF headers = None THEN <<>>
    ELSE LET keys == Unwrap(headers).names
             values == Unwrap(headers).values
             len == Min(Len(keys), Len(values))
         IN  [i \in 1..len |-> <<keys[i], values[i]>>]

\* Mutant: header lists of different lengths are refused.
request_refuse_mismatch(method, url, body, headers, outcome) ==
    IF /\ headers /= None
       /\ Len(Unwrap(headers).names) /= Len(Unwrap(headers).values)
    THEN [sent |-> None, result |-> Err([msg |-> "header mismatch"])]
    ELSE [sent |-> Some([method |-> method, url |-> url,
                         set |-> SetCalls(headers),
                         send_string |-> body]),
          result |-> IF outcome.ok THEN outcome
                     ELSE Err([msg |-> outcome.val])]

request(method, url, body, headers, outcome) ==
    [sent |-> Some([method |-> method, url |-> url,
                    set |-> SetCalls(headers),
                    send_string |-> body]),
     result |-> IF outcome.ok THEN outcome ELSE Err([msg |-> outcome.val])]

\* impl Transport<UreqResponse> for UreqTransport: get and post.
get(url, body, headers, outcome) ==
    LET res == request("GET", url, body, headers, outcome).result
    IN  IF res.ok THEN from_response(res.val) ELSE Err(res.val)

post(url, body, headers, outcome) ==
    LET res == request("POST", url, body, headers, outcome).result
    IN  IF res.ok THEN from_response(res.val) ELSE Err(res.val)

\* Values the agent and the caller can supply.
DeadlineTexts ==
    {<<"7">>, <<"+", "7">>, <<"0", "7">>, <<>>, <<"-", "1">>, <<"7", "s">>,
     <<"9", "9", "9", "9", "9", "9", "9", "9", "9", "9", "9",
       "9", "9", "9", "9", "9", "9", "9", "9", "9", "9">>}

RawReplies ==
    [status : StatusCodes,
     headers : [request_id : Opt({"r1"}), deadline_ms : Opt(DeadlineTexts),
                arn : Opt({"arn"}), trace_id : Opt({"t1"}),
                cognito_id : {None}, client_context : Opt({"ctx"})],
     into_string : {Ok("b1"), Err("response too big")}]

\* Replies that differ in status and request id only.
PlainReplies ==
    {r \in RawReplies :
        /\ r.headers.deadline_ms = Some(<<"7">>)
        /\ r.headers.arn = None /\ r.headers.trace_id = None
        /\ r.headers.client_context = None
        /\ r.into_string.ok}

SeqsUpTo(S, n) == UNION {[1..k -> S] : k \in 0..n}
HeaderNames == {AWS_FUNC_ERR_TYPE, "X-Other"}
HeaderValues == {"v1", "v2"}
HeaderArgs ==
    Opt([names : SeqsUpTo(HeaderNames, MaxHeaders),
         values : SeqsUpTo(HeaderValues, MaxHeaders)])

UreqInputs ==
    [fn : {"from_response"}, resp : RawReplies]
      \cup [fn : {"request"}, method : {"GET", "POST"}, body : Opt(Bodies),
             headers : HeaderArgs,
             outcome : {Err("io")} \cup {Ok(r) : r \in PlainReplies}]
      \cup [fn : {"get", "post"}, body : Opt(Bodies),
             headers : {None},
             outcome : {Err("io")} \cup {Ok(r) : r \in RawReplies}]

UreqInit ==
    /\ Constructed("fn")
    /\ fn_in \in UreqInputs
    /\ fn_out = None

\* UreqResponse::from_response(resp)
FromResponse ==
    /\ fn_in.fn = "from_response"
    /\ fn_out = None
    /\ fn_out' = Some(from_response(fn_in.resp))
    /\ UNCHANGED <<RunVars, fn_in>>

\* self.request(method, url, body, headers)
SendRequest ==
    /\ fn_in.fn = "request"
    /\ fn_out = None
    /\ fn_out' = Some(request(fn_in.method, "url", fn_in.body, fn_in.headers,
                              fn_in.outcome))
    /\ UNCHANGED <<RunVars, fn_in>>

\* transport.get(url, body, headers)
TransportGet ==
    /\ fn_in.fn = "get"
    /\ fn_out = None
    /\ fn_out' = Some(get("url", fn_in.body, fn_in.headers, fn_in.outcome))
    /\ UNCHANGED <<RunVars, fn_in>>

\* transport.post(url, body, headers)
TransportPost ==
    /\ fn_in.fn = "post"
    /\ fn_out = None
    /\ fn_out' = Some(post("url", fn_in.body, fn_in.headers, fn_in.outcome))
    /\ UNCHANGED <<RunVars, fn_in>>

UreqNext ==
    \/ FromResponse
    \/ SendRequest
    \/ TransportGet
    \/ TransportPost

SpecUreq == UreqInit /\ [][UreqNext]_vars

\* The raw reply a call under study was given, when it was given one.
RawReply ==
    IF fn_in.fn = "from_response" THEN Some(fn_in.resp)
    ELSE IF fn_in.fn \in {"get", "post"} /\ fn_in.outcome.ok
    THEN Some(fn_in.outcome.val)
    ELSE None
Converted ==
    /\ fn_in.fn \in {"from_response", "get", "post"}
    /\ fn_out /= None
    /\ RawReply /= None

\* C22: a raw reply without the request-id header (whose body can be read)
\* still becomes a response, from from_response and from the transport's get
\* and post alike, and that response's status is the reply's, so that it can
\* be classified.
C22_MissingIdStillClassified ==
    (/\ Converted
     /\ Unwrap(RawReply).headers.request_id = None
     /\ Unwrap(RawReply).into_string.ok)
        => /\ Result.ok
           /\ get_status_code(Result.val) = Unwrap(RawReply).status
           /\ is_server_err(Result.val) <=> Unwrap(RawReply).status \in 500..599

\* C24: given header names and values of different lengths, request sets
\* exactly the pairs of the overlapping prefix, each name with the value at
\* its position and in that order, sends the request, and returns what the
\* agent returned: the mismatch is no failure.
C24_OverlappingPrefixSent ==
    (Applied("request") /\ fn_in.headers /= None) =>
        LET keys == Unwrap(fn_in.headers).names
            values == Unwrap(fn_in.headers).values
            sent == Unwrap(Result.sent)
        IN  /\ Result.sent /= None
            /\ Len(sent.set) <= Len(keys)
            /\ Len(sent.set) <= Len(values)
            /\ Len(sent.set) \in {Len(keys), Len(values)}
            /\ \A i \in 1..Len(sent.set) : sent.set[i] = <<keys[i], values[i]>>
            /\ sent.method = fn_in.method
            /\ sent.send_string = fn_in.body
            /\ Result.result.ok <=> fn_in.outcome.ok

\* Two names and one value: one pair was set and the agent's reply returned.
C24_Witness ==
    /\ Applied("request")
    /\ fn_in.headers = Some([names |-> <<AWS_FUNC_ERR_TYPE, "X-Other">>,
                             values |-> <<"v1">>])
    /\ Unwrap(Result.sent).set = <<<<AWS_FUNC_ERR_TYPE, "v1">>>>
    /\ Result.result.ok

\* The deadline header of the raw reply is there and does not parse.
MalformedDeadline ==
    /\ Converted
    /\ Unwrap(RawReply).headers.deadline_ms /= None
    /\ ~parse_u64(Unwrap(Unwrap(RawReply).headers.deadline_ms)).ok

\* C26: a reply whose deadline header does not parse as u64 is converted as
\* the same reply without the header is: when the conversion succeeds (the
\* request id is there and the body can be read) the deadline is unset and
\* every other field is the reply's; it fails only where it fails without
\* the deadline header as well.
C26_MalformedDeadlineUnset ==
    MalformedDeadline =>
        LET raw == Unwrap(RawReply)
            without == [raw EXCEPT !.headers.deadline_ms = None]
        IN  /\ Result = from_response(without)
            /\ Result.ok <=> (raw.headers.request_id /= None /\ raw.into_string.ok)
            /\ Result.ok =>
                 /\ deadline(Result.val) = None
                 /\ get_status_code(Result.val) = raw.status
                 /\ Result.val.body = Some(raw.into_string.val)
                 /\ aws_request_id(Result.val) = raw.headers.request_id
                 /\ Result.val._arn = raw.headers.arn
                 /\ Result.val._trace_id = raw.headers.trace_id
                 /\ Result.val._cognito_id = raw.headers.cognito_id
                 /\ Result.val._client_context = raw.headers.client_context

\* A reply with deadline "7s" and a trace id became a response.
C26_Witness ==
    /\ Applied("from_response")
    /\ fn_in.resp.headers.deadline_ms = Some(<<"7", "s">>)
    /\ Result.ok
    /\ deadline(Result.val) = None
    /\ Result.val._trace_id = Some("t1")

---------------------------------------------------------------------------
\* C23: the initializer is called exactly once, before the first poll; every
\* handler call invokes the closure that call returned; and no later step
\* (a poll that failed, a handler that failed, a report however answered)
\* calls the initializer or replaces its result.
C23_InitializerOnce ==
    /\ [](/\ init_calls <= 1
          /\ polls > 0 =>
                /\ init_calls = 1
                /\ init_result /= None
                /\ Unwrap(init_result).ok
          /\ invoked /= None =>
                Unwrap(invoked).lambda = Unwrap(init_result).val)
    /\ [][(init_calls' /= init_calls \/ init_result' /= init_result)
            => /\ pc = "init"
               /\ polls = 0
               /\ init_calls = 0
               /\ init_calls' = 1]_vars

\* The handler runs for the second time, on the one initializer call.
C23_Witness ==
    /\ polls = 2
    /\ handler_calls = 2
    /\ init_calls = 1
    /\ invoked /= None
    /\ Unwrap(invoked).lambda = "event_handler"

---------------------------------------------------------------------------
\* C25: without AWS_LAMBDA_RUNTIME_API in the environment DefaultRuntime::new
\* aborts: the initializer never runs and no request is ever sent.  With it,
\* new stores its value as the base address, which no later step changes
\* and which every URL sent carries.
C25_ApiBaseResolvedOnce ==
    /\ [](fn_in.runtime_api = None
            => /\ pc \in {"new", "panicked"}
               /\ init_calls = 0
               /\ init_result = None
               /\ polls = 0
               /\ exchanges = <<>>)
    /\ [](Built
            => /\ api_base = Unwrap(fn_in.runtime_api)
               /\ \A i \in 1..Len(exchanges) :
                    /\ exchanges[i].req.url[1] = "http://"
                    /\ exchanges[i].req.url[2] = Unwrap(fn_in.runtime_api))
    /\ [][pc /= "new" => api_base' = api_base]_vars

\* Construction has aborted for want of the address.
C25_Witness ==
    /\ fn_in.runtime_api = None
    /\ pc = "panicked"
    /\ init_calls = 0

---------------------------------------------------------------------------
---------------------------------------------------------------------------
\* A step of the loop is a poll, and the poll's response carries a trace id
\* past the status check.
PollStep == pc = "next" /\ polls' = polls + 1
CarriesTrace == PollPassed /\ IsSome(PollReply.trace_id)

\* C28: a poll whose response carries no trace id (or which failed) leaves
\* the snapshot's trace id and the process variable as they were; a poll
\* whose response carries one sets both to it; no other step writes them and
\* no step clears them.  The snapshot the handler reads through its context
\* is the runtime's at the time of the call: the trace id of the latest
\* passed response that carried one, None if there was none.
C28_TraceIdKeptWhenAbsent ==
    /\ [][
         /\ (PollStep /\ ~CarriesTrace')
              => env_vars' = env_vars /\ trace_var' = trace_var
         /\ (PollStep /\ CarriesTrace')
              => /\ env_vars'.trace_id = PollReply'.trace_id
                 /\ trace_var' = PollReply'.trace_id
         /\ ~PollStep => env_vars' = env_vars /\ trace_var' = trace_var
         /\ IsSome(env_vars.trace_id) => IsSome(env_vars'.trace_id)
         /\ IsSome(trace_var) => IsSome(trace_var')
         /\ (pc = "lambda" /\ pc' = "report")
              => Unwrap(invoked').context.env_vars.trace_id
                   = env_vars.trace_id
       ]_vars
    /\ [](polls = 0 => env_vars.trace_id = None)

\* The handler runs on a second response that carries no trace id and reads
\* the first response's.
C28_Witness ==
    /\ polls = 2
    /\ invoked /= None
    /\ PollReply.trace_id = None
    /\ Unwrap(invoked).context.env_vars.trace_id = Some("t1")
    /\ trace_var = Some("t1")

\* C29: the report of a missing request id is one POST to the init-error
\* endpoint with error type Runtime.MissingRequestId and no body; when it is
\* sent, the trace id of the response that lacked the request id is already
\* in the snapshot and in the process variable.
C29_MissingIdReportAfterTrace ==
    /\ pc = "missing_request_id"
         => /\ Len(exchanges) = 1
            /\ PollPassed
            /\ PollReply.request_id = None
            /\ IsSome(PollReply.trace_id)
                 => /\ env_vars.trace_id = PollReply.trace_id
                    /\ trace_var = PollReply.trace_id
    /\ MissingIdReported
         => /\ Len(exchanges) = 2
            /\ Last.req
                 = Request("POST", InitErrorUrl, None,
                           Some([names |-> <<AWS_FUNC_ERR_TYPE>>,
                                 values |-> <<"Runtime.MissingRequestId">>]))
            /\ PollReply.request_id = None
            /\ IsSome(PollReply.trace_id)
                 => /\ env_vars.trace_id = PollReply.trace_id
                    /\ trace_var = PollReply.trace_id

\* The second response had trace id t2 and no request id; the report is out
\* and the snapshot holds t2.
C29_Witness ==
    /\ MissingIdReported
    /\ polls = 2
    /\ PollReply.trace_id = Some("t2")
    /\ env_vars.trace_id = Some("t2")
    /\ trace_var = Some("t2")
    /\ Last.req.url = InitErrorUrl

====
